---- MODULE Spec2Model ----
(***************************************************************************)
(* Model of clock.py: the binary-clock renderer.  main_mp4 builds the LED  *)
(* grid, loads the overlay text, opens the video writer, renders and       *)
(* appends one frame per index inside try/finally, closes the writer and   *)
(* prints "Saved".                                                         *)
(*                                                                         *)
(* Times are Python floats in the source.  They are modelled as exact      *)
(* rationals <<numerator, denominator>>; the one place where IEEE-754      *)
(* rounding changes an outcome (int() of a product that is mathematically  *)
(* an integer, e.g. 14.666666666666666 * 0.06818181818181818 =             *)
(* 0.9999999999999999) is modelled as a choice between both outcomes.      *)
(***************************************************************************)
EXTENDS Integers, Sequences, FiniteSets, TLC

\* ------------------------------------------------------------------------
\* Configuration (clock.py lines 18-51)
\* ------------------------------------------------------------------------
DURATION_SEC == 44
FPS == 30
WIDTH == 1920
HEIGHT == 1080
GRID_COLS == 4
GRID_ROWS == 4
COLUMN_SPACING == 280
ROW_SPACING == 160
GRID_CENTER == <<WIDTH \div 2, (HEIGHT \div 2) - 40>>
COLON_ENABLED == TRUE
COLON_BLINK_FREQ == 1
CODE_OVERLAY_ENABLED == TRUE
\* the two (hour, minute) pairs and the switch time of get_time_for_elapsed
TIME_A == <<4, 43>>
TIME_B == <<4, 44>>
SWITCH_SEC == 22
\* draw_code_overlay: lines shown at once
lines_per_screen == 25
\* number of lines of clock.py itself, which load_source_code reads
SOURCE_LINE_COUNT == 283

\* the configuration as shipped
DefaultConfig ==
    [duration |-> DURATION_SEC, fps |-> FPS, time_a |-> TIME_A, time_b |-> TIME_B]

\* ------------------------------------------------------------------------
\* Bounds of the model
\* ------------------------------------------------------------------------
\* download attempts are counted up to this value and not beyond
DownloadCap == 2
\* overlay texts of 1..MaxSmallLines lines are tried by the overlay harness
MaxSmallLines == 30
\* durations tried by the configuration specification are at most this long
MaxCfgDuration == 1

\* ------------------------------------------------------------------------
\* Arithmetic helpers
\* ------------------------------------------------------------------------
Min(a, b) == IF a < b THEN a ELSE b
Max(a, b) == IF a > b THEN a ELSE b

\* Python's a / b on ints: a float, kept as the exact rational <<a, b>>
TrueDiv(a, b) == <<a, b>>
\* sign-normalised numerator and denominator of a rational
RNum(r) == IF r[2] < 0 THEN -r[1] ELSE r[1]
RDen(r) == IF r[2] < 0 THEN -r[2] ELSE r[2]
RatLt(a, b) == RNum(a) * RDen(b) < RNum(b) * RDen(a)
RatMul(a, b) == <<a[1] * b[1], a[2] * b[2]>>
\* Python's float %, divisor c > 0: the result lies in [0, c)
RatMod(a, c) ==
    <<(RNum(a) * RDen(c)) % (RNum(c) * RDen(a)), RDen(a) * RDen(c)>>

\* ------------------------------------------------------------------------
\* Binary clock logic (BCD)
\* ------------------------------------------------------------------------
\* (d >> shift) & 1 for a non-negative d
Bit(d, shift) == (d \div (2 ^ shift)) % 2

\* the assert of bcd_bits
BcdDomain(d) == 0 <= d /\ d <= 9

\* bcd_bits with the shifts taken in the order 0, 1, 2, 3
bcd_bits_lsb_first(d) == <<Bit(d, 0), Bit(d, 1), Bit(d, 2), Bit(d, 3)>>

\* bcd_bits(d): bits for shifts 3, 2, 1, 0, i.e. weights 8, 4, 2, 1
bcd_bits(d) == <<Bit(d, 3), Bit(d, 2), Bit(d, 1), Bit(d, 0)>>

digits_for_time(h, m) == <<h \div 10, h % 10, m \div 10, m % 10>>

\* get_time_for_elapsed with t <= 22.0 in place of t < 22.0
get_time_for_elapsed_le(t, c) ==
    IF ~RatLt(<<SWITCH_SEC, 1>>, t) THEN c.time_a ELSE c.time_b

\* get_time_for_elapsed(t), with the two times taken from the configuration
get_time_for_elapsed(t, c) ==
    IF RatLt(t, <<SWITCH_SEC, 1>>) THEN c.time_a ELSE c.time_b

\* ------------------------------------------------------------------------
\* Rendering helpers
\* ------------------------------------------------------------------------
\* compute_grid_positions with the width and height of the grid taken as
\* spacing * count in place of spacing * (count - 1)
compute_grid_positions_wide ==
    LET cx == GRID_CENTER[1]
        cy == GRID_CENTER[2]
        total_w == COLUMN_SPACING * GRID_COLS
        total_h == ROW_SPACING * GRID_ROWS
        left == cx - (total_w \div 2)
        top == cy - (total_h \div 2)
    IN  [col \in 1..GRID_COLS |->
            [row \in 1..GRID_ROWS |->
                <<left + (col - 1) * COLUMN_SPACING, top + (row - 1) * ROW_SPACING>>]]

\* compute_grid_positions(): positions[col][row] = <<x, y>>, indices from 1
compute_grid_positions ==
    LET cx == GRID_CENTER[1]
        cy == GRID_CENTER[2]
        total_w == COLUMN_SPACING * (GRID_COLS - 1)
        total_h == ROW_SPACING * (GRID_ROWS - 1)
        left == cx - (total_w \div 2)
        top == cy - (total_h \div 2)
    IN  [col \in 1..GRID_COLS |->
            [row \in 1..GRID_ROWS |->
                <<left + (col - 1) * COLUMN_SPACING, top + (row - 1) * ROW_SPACING>>]]

\* colon_visible with <= in place of <
colon_visible_le(t) ==
    IF ~COLON_ENABLED THEN FALSE
    ELSE LET cycle_time == <<1, COLON_BLINK_FREQ>>
         IN  ~RatLt(<<cycle_time[1], 2 * cycle_time[2]>>, RatMod(t, cycle_time))

\* colon_visible(t): (t % cycle_time) < cycle_time / 2, cycle_time = 1 / freq
colon_visible(t) ==
    IF ~COLON_ENABLED THEN FALSE
    ELSE LET cycle_time == <<1, COLON_BLINK_FREQ>>
         IN  RatLt(RatMod(t, cycle_time), <<cycle_time[1], 2 * cycle_time[2]>>)

\* ------------------------------------------------------------------------
\* Code overlay
\* ------------------------------------------------------------------------
\* max(1, len(source_lines) - lines_per_screen + 1)
total_scrollable_lines(n) == Max(1, n - lines_per_screen + 1)

\* int(x) of a float x whose exact value is the rational r.  A product that
\* is exactly an integer k /= 0 may be computed just short of it, so int()
\* gives k or the integer next to it towards zero; otherwise int() truncates.
IntOfFloat(r) ==
    LET n == RNum(r)
        d == RDen(r)
        a == IF n < 0 THEN -n ELSE n
        q == a \div d
        sgn == IF n < 0 THEN -1 ELSE 1
    IN  IF a % d = 0 /\ q > 0 THEN {sgn * q, sgn * (q - 1)} ELSE {sgn * q}

\* start_line with the scroll speed taken per frame rate, not per duration
start_lines_per_fps(t, n, c) ==
    LET S == total_scrollable_lines(n)
        lines_per_second == TrueDiv(S, c.fps)
    IN  {k % S : k \in IntOfFloat(RatMul(t, lines_per_second))}

\* the values start_line can take in draw_code_overlay for n source lines
start_lines(t, n, c) ==
    LET S == total_scrollable_lines(n)
        lines_per_second == TrueDiv(S, c.duration)
    IN  {k % S : k \in IntOfFloat(RatMul(t, lines_per_second))}

end_line(start_line, n) == Min(start_line + lines_per_screen, n)

\* ------------------------------------------------------------------------
\* State
\* ------------------------------------------------------------------------
VARIABLES
    cfg,            \* the configuration constants of this run
    pc,             \* position in main_mp4
    positions,      \* main_mp4: positions
    source_len,     \* main_mp4: len(source_lines)
    total_frames,   \* main_mp4: total_frames
    i,              \* main_mp4: loop variable
    frame_img,      \* main_mp4: frame_img, the frame not yet appended
    sink,           \* frames the writer has received, in order
    closeCalls,     \* number of writer.close() calls
    error,          \* the exception in flight or raised to the caller
    failedAt,       \* loop index at which the loop raised, -1 if it did not
    lastRendered,   \* index of the last frame render_frame returned, -1 if none
    saved,          \* "Saved: ..." has been printed
    fontFile,       \* DejaVuSansMono.ttf exists in the working directory
    downloads,      \* download attempts made (counted up to DownloadCap)
    font,           \* font used by the last overlay drawn
    probe           \* last call made by the function harness

vars == <<cfg, pc, positions, source_len, total_frames, i, frame_img, sink,
          closeCalls, error, failedAt, lastRendered, saved, fontFile,
          downloads, font, probe>>

NoFrame == [t |-> <<0, 1>>, digits |-> <<>>, colon |-> FALSE,
            start_line |-> -1, end_line |-> -1]
NoProbe == [fn |-> "none", n |-> 0, i |-> 0, ret |-> <<>>, prev |-> 0, seen |-> {}]

\* state right after the module is loaded, before main_mp4 runs
InitWith(c) ==
    /\ cfg = c
    /\ pc = "start"
    /\ positions = <<>>
    /\ source_len = 0
    /\ total_frames = 0
    /\ i = 0
    /\ frame_img = NoFrame
    /\ sink = <<>>
    /\ closeCalls = 0
    /\ error = "none"
    /\ failedAt = -1
    /\ lastRendered = -1
    /\ saved = FALSE
    /\ fontFile \in BOOLEAN
    /\ downloads = 0
    /\ font = "none"
    /\ probe = NoProbe

Init == InitWith(DefaultConfig)

\* ------------------------------------------------------------------------
\* download_font and the font choice of draw_code_overlay
\* ------------------------------------------------------------------------
\* download_font with the file present returns its path; otherwise it makes
\* one request, which succeeds (ok) or is caught and answered with None.
\* The result is <<file exists afterwards, attempts afterwards, font used>>.
download_font(exists, attempts, ok) ==
    IF exists THEN <<TRUE, attempts, "DejaVuSansMono">>
    ELSE <<ok, Min(attempts + 1, DownloadCap),
           IF ok THEN "DejaVuSansMono" ELSE "fallback">>

\* ------------------------------------------------------------------------
\* render_frame
\* ------------------------------------------------------------------------
\* What render_frame(t, positions, source_lines) draws when the overlay
\* starts at start_line: the digits whose bits light the LEDs, whether the
\* colon is drawn, and the window of overlay lines.
render_frame(t, n, start_line, c) ==
    LET hm == get_time_for_elapsed(t, c)
        digits == digits_for_time(hm[1], hm[2])
    IN  [t |-> t,
         digits |-> digits,
         colon |-> colon_visible(t),
         start_line |-> start_line,
         end_line |-> end_line(start_line, n)]

\* the assert of bcd_bits holds for every digit render_frame passes to it
digits_ok(t, c) ==
    LET hm == get_time_for_elapsed(t, c)
        digits == digits_for_time(hm[1], hm[2])
    IN  \A col \in 1..GRID_COLS : BcdDomain(digits[col])

\* ------------------------------------------------------------------------
\* main_mp4
\* ------------------------------------------------------------------------
\* total_frames one frame short
frame_count_short(c) == c.duration * c.fps - 1

\* total_frames = DURATION_SEC * FPS
frame_count(c) == c.duration * c.fps

\* no finally block: an exception in the loop body leaves main_mp4 at once
on_exception_unwind == "raised"

\* try/finally: an exception in the loop body runs the finally block
on_exception == "finally"

\* the exception in flight is swallowed after the finally block
after_finally_swallow(err) == "report"

\* after the finally block an exception in flight is re-raised, otherwise
\* control falls through to the print
after_finally(err) == IF err = "none" THEN "report" ELSE "raised"

\* lines 263-267: grid, overlay text (own source, or the one-line fallback
\* when it cannot be read), frame count, and the writer is opened
Setup ==
    /\ pc = "start"
    /\ positions' = compute_grid_positions
    /\ \E readable \in BOOLEAN :
          source_len' = IF readable THEN SOURCE_LINE_COUNT ELSE 1
    /\ total_frames' = frame_count(cfg)
    /\ pc' = IF frame_count(cfg) > 0 THEN "loop" ELSE "finally"
    /\ UNCHANGED <<cfg, i, frame_img, sink, closeCalls, error, failedAt,
                   lastRendered, saved, fontFile, downloads, font, probe>>

\* line 267 raises: imageio.get_writer fails, before the try block
SetupFail ==
    /\ pc = "start"
    /\ positions' = compute_grid_positions
    /\ \E readable \in BOOLEAN :
          source_len' = IF readable THEN SOURCE_LINE_COUNT ELSE 1
    /\ total_frames' = frame_count(cfg)
    /\ error' = "open"
    /\ pc' = "raised"
    /\ UNCHANGED <<cfg, i, frame_img, sink, closeCalls, failedAt,
                   lastRendered, saved, fontFile, downloads, font, probe>>

\* lines 271-272: t = i / FPS and render_frame, the overlay's font lookup
\* included; an out-of-range digit fails the assert of bcd_bits after the
\* overlay has been drawn
RenderFrame ==
    /\ pc = "loop"
    /\ LET t == TrueDiv(i, cfg.fps)
           overlay == CODE_OVERLAY_ENABLED /\ source_len > 0
       IN
       \E ok \in BOOLEAN,
          start_line \in IF overlay THEN start_lines(t, source_len, cfg) ELSE {-1} :
          LET df == IF overlay THEN download_font(fontFile, downloads, ok)
                    ELSE <<fontFile, downloads, font>>
          IN
          /\ fontFile' = df[1]
          /\ downloads' = df[2]
          /\ font' = df[3]
          /\ IF digits_ok(t, cfg)
             THEN /\ frame_img' = render_frame(t, source_len, start_line, cfg)
                  /\ lastRendered' = i
                  /\ pc' = "append"
                  /\ UNCHANGED <<error, failedAt>>
             ELSE /\ error' = "render"
                  /\ failedAt' = i
                  /\ pc' = on_exception
                  /\ UNCHANGED <<frame_img, lastRendered>>
    /\ UNCHANGED <<cfg, positions, source_len, total_frames, i, sink,
                   closeCalls, saved, probe>>

\* line 272 raises for another reason (the image cannot be allocated)
RenderFail ==
    /\ pc = "loop"
    /\ error' = "render"
    /\ failedAt' = i
    /\ pc' = on_exception
    /\ UNCHANGED <<cfg, positions, source_len, total_frames, i, frame_img,
                   sink, closeCalls, lastRendered, saved, fontFile, downloads,
                   font, probe>>

\* lines 274-275 and the loop header: the frame is appended, then the next
\* index is taken or the range is exhausted
AppendData ==
    /\ pc = "append"
    /\ sink' = Append(sink, [index |-> i, frame |-> frame_img])
    /\ i' = i + 1
    /\ pc' = IF i + 1 < total_frames THEN "loop" ELSE "finally"
    /\ UNCHANGED <<cfg, positions, source_len, total_frames, frame_img,
                   closeCalls, error, failedAt, lastRendered, saved, fontFile,
                   downloads, font, probe>>

\* lines 274-275 raise: the conversion or writer.append_data fails
AppendFail ==
    /\ pc = "append"
    /\ error' = "append"
    /\ failedAt' = i
    /\ pc' = on_exception
    /\ UNCHANGED <<cfg, positions, source_len, total_frames, i, frame_img,
                   sink, closeCalls, lastRendered, saved, fontFile, downloads,
                   font, probe>>

\* line 277: the finally block closes the writer; an exception in flight is
\* re-raised afterwards
Close ==
    /\ pc = "finally"
    /\ closeCalls' = closeCalls + 1
    /\ pc' = after_finally(error)
    /\ UNCHANGED <<cfg, positions, source_len, total_frames, i, frame_img,
                   sink, error, failedAt, lastRendered, saved, fontFile,
                   downloads, font, probe>>

\* line 277 raises: writer.close() itself fails and its exception leaves
\* main_mp4 (with the loop's exception, if any, as its context)
CloseFail ==
    /\ pc = "finally"
    /\ closeCalls' = closeCalls + 1
    /\ error' = "close"
    /\ pc' = "raised"
    /\ UNCHANGED <<cfg, positions, source_len, total_frames, i, frame_img,
                   sink, failedAt, lastRendered, saved, fontFile, downloads,
                   font, probe>>

\* line 279: print("Saved: ...") and return
Report ==
    /\ pc = "report"
    /\ saved' = TRUE
    /\ pc' = "returned"
    /\ UNCHANGED <<cfg, positions, source_len, total_frames, i, frame_img,
                   sink, closeCalls, error, failedAt, lastRendered, fontFile,
                   downloads, font, probe>>

Next ==
    \/ Setup
    \/ SetupFail
    \/ RenderFrame
    \/ RenderFail
    \/ AppendData
    \/ AppendFail
    \/ Close
    \/ CloseFail
    \/ Report

Spec == Init /\ [][Next]_vars

\* ------------------------------------------------------------------------
\* The same program under other configurations
\* ------------------------------------------------------------------------
\* durations -1..MaxCfgDuration, and for the first displayed time the
\* shipped value or one whose minute tens digit is 10
ConfigSpace ==
    [duration : -1..MaxCfgDuration,
     fps : {FPS},
     time_a : {TIME_A, <<4, 103>>},
     time_b : {TIME_B}]

InitCfg == \E c \in ConfigSpace : InitWith(c)

SpecCfg == InitCfg /\ [][Next]_vars

\* ------------------------------------------------------------------------
\* Function harness: one pure function applied to chosen arguments per run
\* ------------------------------------------------------------------------
\* overlay texts tried: every short one, the program's own source, and the
\* lengths around the point where scroll positions outnumber the frames
LineCounts ==
    (1..MaxSmallLines) \cup {SOURCE_LINE_COUNT,
                             DURATION_SEC * FPS + lines_per_screen - 2,
                             DURATION_SEC * FPS + lines_per_screen}

InitUnit ==
    /\ InitWith(DefaultConfig)
    /\ fontFile = TRUE

\* bcd_bits(d); the result is <<>> when the assert fails
ProbeBcdBits ==
    /\ probe = NoProbe
    /\ \E d \in -1..10 :
          probe' = [fn |-> "bcd_bits", n |-> d, i |-> 0,
                    ret |-> IF BcdDomain(d) THEN bcd_bits(d) ELSE <<>>,
                    prev |-> 0, seen |-> {}]
    /\ UNCHANGED <<cfg, pc, positions, source_len, total_frames, i, frame_img,
                   sink, closeCalls, error, failedAt, lastRendered, saved,
                   fontFile, downloads, font>>

\* the window draw_code_overlay shows for frame idx of a text of n lines
Window(n, idx, prev, seen) ==
    {[fn |-> "draw_code_overlay", n |-> n, i |-> idx,
      ret |-> <<s, end_line(s, n)>>,
      prev |-> IF idx = 0 THEN s ELSE prev,
      seen |-> seen \cup {s}] :
        s \in start_lines(TrueDiv(idx, cfg.fps), n, cfg)}

\* draw_code_overlay for the first frame of a text of n lines
ProbeOverlayFirst ==
    /\ probe = NoProbe
    /\ \E n \in LineCounts : probe' \in Window(n, 0, 0, {})
    /\ UNCHANGED <<cfg, pc, positions, source_len, total_frames, i, frame_img,
                   sink, closeCalls, error, failedAt, lastRendered, saved,
                   fontFile, downloads, font>>

\* draw_code_overlay for the next frame of the same text
ProbeOverlayNext ==
    /\ probe.fn = "draw_code_overlay"
    /\ probe.i + 1 < frame_count(cfg)
    /\ probe' \in Window(probe.n, probe.i + 1, probe.ret[1], probe.seen)
    /\ UNCHANGED <<cfg, pc, positions, source_len, total_frames, i, frame_img,
                   sink, closeCalls, error, failedAt, lastRendered, saved,
                   fontFile, downloads, font>>

NextUnit ==
    \/ ProbeBcdBits
    \/ ProbeOverlayFirst
    \/ ProbeOverlayNext

SpecUnit == InitUnit /\ [][NextUnit]_vars

\* ------------------------------------------------------------------------
\* Properties
\* ------------------------------------------------------------------------
Terminated == pc \in {"returned", "raised"}
RatEq(a, b) == RNum(a) * RDen(b) = RNum(b) * RDen(a)
ShippedFrames == DURATION_SEC * FPS

\* the frame appended last
Last == sink[Len(sink)]

\* the k-th frame appended has index k - 1 and was rendered at (k - 1)/30
FrameInOrder(k) ==
    /\ sink[k].index = k - 1
    /\ RatEq(sink[k].frame.t, <<k - 1, 30>>)

\* C1: with duration 44 s and rate 30 fps the sink receives the frames in
\* index order 0, 1, 2, ... with none skipped or repeated, the frame of
\* index i is rendered at t = i/30, and a run that does not fail has
\* appended exactly 1320 frames when the loop is over.  Every frame is
\* checked when it is the newest one, and all of them again at the return.
C1_FramesInOrder ==
    /\ Len(sink) <= 1320
    /\ (Len(sink) > 0 => FrameInOrder(Len(sink)))
    /\ (pc \in {"report", "returned"} => Len(sink) = 1320)
    /\ (pc = "finally" /\ error = "none" => Len(sink) = 1320)
    /\ (pc = "returned" => \A k \in 1..Len(sink) : FrameInOrder(k))

C1_Witness == pc = "returned" /\ Len(sink) = 1320 /\ sink[1320].index = 1319

\* state part of C2: an exit of main_mp4 with the writer opened has called
\* close exactly once, close is never called twice, the loop is not running
\* once close has been called, and a run whose loop failed ends by raising
C2_Closed ==
    /\ closeCalls <= 1
    /\ (Terminated /\ error /= "open" => closeCalls = 1)
    /\ (closeCalls >= 1 => pc \notin {"loop", "append"})
    /\ (failedAt /= -1 /\ Terminated => pc = "raised" /\ closeCalls = 1)
    /\ (failedAt /= -1 => pc \in {"finally", "raised"})

\* C2: once the writer is open, every exit of main_mp4 (return or raise)
\* has called close exactly once, on normal completion and after a failure
\* at any index alike; no step taken after the close appends a frame; and a
\* run whose loop failed ends by raising, after the close.
C2_ClosedAlways == []C2_Closed /\ [][closeCalls >= 1 => sink' = sink]_vars

C2_Witness == pc = "raised" /\ failedAt = 2 /\ error = "append" /\ closeCalls = 1

\* the digits of the k-th frame appended are those of its phase
DigitsShown(k) ==
    sink[k].frame.digits =
        IF sink[k].index <= 659 THEN <<0, 4, 4, 3>> ELSE <<0, 4, 4, 4>>

\* C3: frames 0..659 show the digits 0,4,4,3 and frames 660..1319 show
\* 0,4,4,4, so the digits change once, between frame 659 and frame 660.
\* Every frame is checked when it is the newest one, and the whole sequence
\* again at the return.
C3_Digits ==
    /\ (Len(sink) > 0 => DigitsShown(Len(sink)))
    /\ (pc = "returned" =>
          /\ \A k \in 1..Len(sink) : DigitsShown(k)
          /\ \A k \in 1..(Len(sink) - 1) :
                (sink[k].frame.digits /= sink[k + 1].frame.digits) <=> (k = 660))

C3_Witness ==
    /\ pc = "returned"
    /\ Len(sink) = 1320
    /\ sink[660].frame.digits = <<0, 4, 4, 3>>
    /\ sink[661].frame.digits = <<0, 4, 4, 4>>

\* C4: at most one font download is attempted in a run.
C4_AtMostOneDownload == downloads <= 1

\* a displayed digit outside 0..9, a negative duration or a negative rate
InvalidConfig(c) ==
    \/ c.duration < 0
    \/ c.fps < 0
    \/ \E hm \in {c.time_a, c.time_b} :
          \E col \in 1..GRID_COLS : ~BcdDomain(digits_for_time(hm[1], hm[2])[col])

\* C5: with an invalid configuration (a displayed digit outside 0..9, a
\* negative duration or a negative rate) no frame is rendered, no frame is
\* appended, and the run neither reaches the print nor returns normally.
C5_FailFast ==
    InvalidConfig(cfg) =>
        /\ lastRendered = -1
        /\ sink = <<>>
        /\ ~saved
        /\ pc \notin {"report", "returned"}

\* state part of C6: the print happens only with all frames appended, and
\* a failure at index i leaves no rendered or appended frame beyond i
C6_State ==
    /\ (saved \/ pc = "report" => Len(sink) = 1320 /\ closeCalls = 1 /\ failedAt = -1)
    /\ (failedAt /= -1 =>
          /\ lastRendered <= failedAt
          /\ Len(sink) <= failedAt
          /\ (Len(sink) > 0 => Last.index < failedAt)
          /\ ~saved
          /\ pc \notin {"report", "returned", "loop", "append"})
    /\ (error /= "none" => ~saved /\ pc /= "report")

\* C6: "Saved" is printed only with all 1320 frames appended and the
\* writer closed; after a failure at index i no frame of a greater index
\* has been rendered or appended, no later step renders or appends
\* anything, and "Saved" is not printed.
C6_AllOrNothing ==
    /\ []C6_State
    /\ [][failedAt /= -1 =>
            sink' = sink /\ lastRendered' = lastRendered /\ ~saved']_vars

C6_Witness == pc = "raised" /\ failedAt = 700 /\ Len(sink) = 700 /\ lastRendered = 700

\* C7: for d in 0..9, bcd_bits(d) is four bits, each 0 or 1, most
\* significant first: 8*b0 + 4*b1 + 2*b2 + b3 = d.
C7_BcdDecodes ==
    probe.fn = "bcd_bits" /\ probe.n \in 0..9 =>
        /\ Len(probe.ret) = 4
        /\ \A b \in 1..4 : probe.ret[b] \in {0, 1}
        /\ 8 * probe.ret[1] + 4 * probe.ret[2] + 2 * probe.ret[3] + probe.ret[4]
              = probe.n

C7_Witness == probe.fn = "bcd_bits" /\ probe.n = 9 /\ probe.ret = <<1, 0, 0, 1>>

\* C8: the grid is symmetric around GRID_CENTER, adjacent columns are
\* COLUMN_SPACING apart in x, adjacent rows are ROW_SPACING apart in y, a
\* column shares one x and a row shares one y.
C8_Grid ==
    positions /= <<>> =>
        /\ DOMAIN positions = 1..4
        /\ \A c \in 1..4 : DOMAIN positions[c] = 1..4
        /\ \A c \in 1..4, r \in 1..4 :
              /\ positions[c][r][1] + positions[5 - c][r][1] = 2 * GRID_CENTER[1]
              /\ positions[c][r][2] + positions[c][5 - r][2] = 2 * GRID_CENTER[2]
              /\ positions[c][r][1] = positions[c][1][1]
              /\ positions[c][r][2] = positions[1][r][2]
        /\ \A c \in 1..3, r \in 1..4 :
              positions[c + 1][r][1] - positions[c][r][1] = COLUMN_SPACING
        /\ \A c \in 1..4, r \in 1..3 :
              positions[c][r + 1][2] - positions[c][r][2] = ROW_SPACING

C8_Witness == pc = "loop" /\ positions /= <<>> /\ positions[1][1] = <<540, 260>>

\* the traversal properties of C9 for one call of the overlay harness
Traversal(p) ==
    LET S == IF p.n - 25 + 1 > 1 THEN p.n - 25 + 1 ELSE 1 IN
    /\ (p.i = 0 => p.ret[1] = 0)
    /\ p.prev <= p.ret[1]
    /\ p.ret[1] \in 0..(S - 1)
    /\ p.ret[2] <= p.n
    /\ p.ret[1] + 25 <= p.n \/ p.ret[2] = p.n
    /\ (p.i = ShippedFrames - 1 => p.seen = 0..(S - 1))

\* C9 as stated: for every text of N >= 1 lines the window start is 0 at
\* frame 0, never decreases, stays in 0..S-1, takes every value of 0..S-1
\* by the last frame, and the window never reads past line N.
C9_TraversesOnce == probe.fn = "draw_code_overlay" => Traversal(probe)

\* C9 amended: the same, for texts with fewer scroll positions than frames
\* (S < 1320, i.e. N <= 1343).
C9_TraversesOnceIfFewer ==
    probe.fn = "draw_code_overlay" /\ probe.n - 25 + 1 < ShippedFrames =>
        Traversal(probe)

C9_Witness ==
    /\ probe.fn = "draw_code_overlay"
    /\ probe.n = 283
    /\ probe.i = ShippedFrames - 1
    /\ probe.ret = <<258, 283>>
    /\ probe.seen = 0..258

\* the colon of the k-th frame appended: drawn iff t mod 1 < 1/2, and iff
\* index mod 30 < 15
BlinkShown(k) ==
    LET f == sink[k].frame IN
    /\ f.colon <=> (2 * (RNum(f.t) % RDen(f.t)) < RDen(f.t))
    /\ f.colon <=> (sink[k].index % 30 < 15)

\* C10: the colon is drawn in the frame at time t exactly when t mod 1 s
\* lies in [0, 1/2); frame i shows it iff (i mod 30) < 15, so it is shown
\* in runs of 15 frames starting with frame 0.  Every frame is checked when
\* it is the newest one, and the whole sequence again at the return.
C10_Blink ==
    /\ (Len(sink) > 0 => BlinkShown(Len(sink)))
    /\ (pc = "returned" => \A k \in 1..Len(sink) : BlinkShown(k))

C10_Witness ==
    /\ pc = "returned"
    /\ sink[15].frame.colon
    /\ ~sink[16].frame.colon
    /\ ~sink[30].frame.colon
    /\ sink[31].frame.colon

====
